---- MODULE Spec2Model ----
(***************************************************************************)
(* rcaget: open one Channel Access channel per PV name, wait for all of    *)
(* them to connect under one deadline, read each one with the type the     *)
(* channel negotiated, and print one formatted line per record.            *)
(*                                                                         *)
(* Text is a sequence of one-character strings, so that padding, joining   *)
(* and trailing characters are things the model can look at.               *)
(***************************************************************************)
EXTENDS Integers, Sequences, FiniteSets, TLC

\* ------------------------------------------------------------------ bounds
MaxNames == 3
MaxElems == 3

\* ------------------------------------------------------- program constants
NamePadWidth == 30
FracDigits == 5
EpicsEpoch == 631152000
SecondsPerDay == 86400

\* ---------------------------------------------------------------- alphabet
NUL == "NUL"
BADBYTE == "0xFF"
REPLACEMENT == "U+FFFD"
SP == " "
Whitespace == {" ", "\t", "\n", "\r"}

PVNames == { <<"A">>, <<"B">>, <<"A", NUL, "B">> }

FieldId == {"Char", "Short", "Enum", "Long", "Float", "Double", "String"}
ArrayFieldId == {"Short", "Long", "Float", "Double", "String"}

\* ------------------------------------------------------------ text helpers
RECURSIVE Spaces(_)
Spaces(n) == IF n <= 0 THEN <<>> ELSE <<SP>> \o Spaces(n - 1)

\* [T]::join(sep) on a vector of strings
RECURSIVE Join(_, _)
Join(parts, sep) ==
    IF parts = <<>> THEN <<>>
    ELSE IF Len(parts) = 1 THEN parts[1]
    ELSE parts[1] \o sep \o Join(Tail(parts), sep)

DigitChar(d) == <<"0", "1", "2", "3", "4", "5", "6", "7", "8", "9">>[d + 1]

RECURSIVE NatToString(_)
NatToString(n) ==
    IF n < 10 THEN <<DigitChar(n)>>
    ELSE NatToString(n \div 10) \o <<DigitChar(n % 10)>>

\* Display for the integer types (i16, i32, u16, usize)
IntToString(i) == IF i < 0 THEN <<"-">> \o NatToString(0 - i) ELSE NatToString(i)

\* zero-padded decimal of fixed width (chrono's %Y %m %d %H %M %S %.6f fields)
RECURSIVE ZeroPad(_, _)
ZeroPad(n, width) ==
    IF width <= 0 THEN <<>>
    ELSE ZeroPad(n \div 10, width - 1) \o <<DigitChar(n % 10)>>

RECURSIVE Pow10(_)
Pow10(k) == IF k = 0 THEN 1 ELSE 10 * Pow10(k - 1)

RECURSIVE Pow2(_)
Pow2(k) == IF k = 0 THEN 1 ELSE 2 * Pow2(k - 1)

\* format!("{:.5}", x) for the binary float x = f.m / 2^f.e: the exact decimal
\* expansion rounded to FracDigits places, ties to even
FormatFixed(f) ==
    LET m   == f.m
        den == Pow2(f.e)
        mag == IF m < 0 THEN 0 - m ELSE m
        num == mag * Pow10(FracDigits)
        q0  == num \div den
        r   == num % den
        up  == (2 * r > den) \/ (2 * r = den /\ q0 % 2 = 1)
        q   == IF up THEN q0 + 1 ELSE q0
    IN  (IF m < 0 THEN <<"-">> ELSE <<>>)
        \o NatToString(q \div Pow10(FracDigits))
        \o <<".">>
        \o ZeroPad(q % Pow10(FracDigits), FracDigits)

\* EpicsString::to_string_lossy: invalid bytes become U+FFFD
RECURSIVE StringLossy(_)
StringLossy(bytes) ==
    IF bytes = <<>> THEN <<>>
    ELSE <<IF bytes[1] = BADBYTE THEN REPLACEMENT ELSE bytes[1]>>
         \o StringLossy(Tail(bytes))

\* format!("{:<30}", name): left-aligned, space-filled, never truncated
PadName(name) == name \o Spaces(NamePadWidth - Len(name))

\* ----------------------------------------------------------------- RawValue
IsArrayVariant(variant) ==
    variant \in {"ShortArray", "LongArray", "FloatArray", "DoubleArray", "StringArray"}

\* derive(Debug) text of a value; the payload of the external request::Time
\* struct is elided
DebugText(v) ==
    (CASE v.variant = "Char" -> <<"C", "h", "a", "r">>
       [] v.variant = "ShortArray" -> <<"S", "h", "o", "r", "t", "A", "r", "r", "a", "y">>
       [] v.variant = "FloatArray" -> <<"F", "l", "o", "a", "t", "A", "r", "r", "a", "y">>
       [] v.variant = "DoubleArray" -> <<"D", "o", "u", "b", "l", "e", "A", "r", "r", "a", "y">>
       [] v.variant = "StringArray" -> <<"S", "t", "r", "i", "n", "g", "A", "r", "r", "a", "y">>
       [] OTHER -> <<"R", "a", "w", "V", "a", "l", "u", "e">>)
    \o <<"(", ".", ".", ")">>

NotImplementedText(v) ==
    <<"<", "f", "o", "r", "m", "a", "t", "t", "i", "n", "g", " ", "n", "o", "t", " ",
      "i", "m", "p", "l", "e", "m", "e", "n", "t", "e", "d", " ", "y", "e", "t", " ",
      "f", "o", "r", " ">> \o DebugText(v) \o <<">">>

format_scalar(v) ==
    CASE v.variant = "Short"  -> IntToString(v.data)
      [] v.variant = "Long"   -> IntToString(v.data)
      [] v.variant = "Float"  -> FormatFixed(v.data)
      [] v.variant = "Double" -> FormatFixed(v.data)
      [] v.variant = "Enum"   -> IntToString(v.data)
      [] v.variant = "String" -> StringLossy(v.data)
      [] OTHER                -> NotImplementedText(v)

\* the inner generic format_array<T>: elements to text, "0" pushed
\* padding - len times, joined with one space
RECURSIVE Zeros(_)
Zeros(n) == IF n <= 0 THEN <<>> ELSE << <<"0">> >> \o Zeros(n - 1)

format_array_generic(padding, data) ==
    LET rest == [i \in 1..Len(data) |-> IntToString(data[i])]
    IN  Join(rest \o Zeros(padding - Len(rest)), <<SP>>)

format_array(v, padding) ==
    CASE v.variant = "LongArray" -> format_array_generic(padding, v.data)
      [] OTHER                   -> NotImplementedText(v)

\* ------------------------------------------------------------- format_stamp
\* EpicsTimeStamp::to_system, DateTime<Local>::from, then "%F %T%.6f":
\* seconds since the EPICS epoch to local civil time, microseconds truncated
CivilFromDays(days) ==
    LET z   == days + 719468
        era == z \div 146097
        doe == z - era * 146097
        yoe == (doe - doe \div 1460 + doe \div 36524 - doe \div 146096) \div 365
        doy == doe - (365 * yoe + yoe \div 4 - yoe \div 100)
        mp  == (5 * doy + 2) \div 153
        d   == doy - (153 * mp + 2) \div 5 + 1
        m   == IF mp < 10 THEN mp + 3 ELSE mp - 9
        y   == yoe + era * 400 + (IF m <= 2 THEN 1 ELSE 0)
    IN  [year |-> y, month |-> m, day |-> d]

format_stamp(stamp, offset) ==
    LET unix == EpicsEpoch + stamp.sec + offset
        date == CivilFromDays(unix \div SecondsPerDay)
        sod  == unix % SecondsPerDay
    IN  ZeroPad(date.year, 4) \o <<"-">> \o ZeroPad(date.month, 2) \o <<"-">>
        \o ZeroPad(date.day, 2) \o <<SP>>
        \o ZeroPad(sod \div 3600, 2) \o <<":">> \o ZeroPad((sod % 3600) \div 60, 2)
        \o <<":">> \o ZeroPad(sod % 60, 2)
        \o <<".">> \o ZeroPad(stamp.nsec \div 1000, 6)

\* ---------------------------------------------------------------------- Info
Info(name, elements, value) == [name |-> name, elements |-> elements, value |-> value]

is_scalar(info) == info.elements = 1

\* print_formatted as it would be with the name padded for arrays too
print_formatted_padded(chan_info, cfg, offset) ==
    LET scalar == is_scalar(chan_info)
        c1 == IF ~cfg.terse THEN << PadName(chan_info.name) >> ELSE <<>>
        c2 == IF cfg.wide
              THEN Append(c1, format_stamp(chan_info.value.stamp, offset))
              ELSE c1
        c3 == IF ~scalar
              THEN Append(c2, IntToString(chan_info.elements))
              ELSE c2
        c4 == Append(c3, IF scalar
                         THEN format_scalar(chan_info.value)
                         ELSE format_array(chan_info.value, chan_info.elements))
    IN  Join(c4, <<SP>>)

\* print_formatted: the components vector, joined with one space
print_formatted(chan_info, cfg, offset) ==
    LET scalar == is_scalar(chan_info)
        c1 == IF ~cfg.terse
              THEN << IF scalar THEN PadName(chan_info.name) ELSE chan_info.name >>
              ELSE <<>>
        c2 == IF cfg.wide
              THEN Append(c1, format_stamp(chan_info.value.stamp, offset))
              ELSE c1
        c3 == IF ~scalar
              THEN Append(c2, IntToString(chan_info.elements))
              ELSE c2
        c4 == Append(c3, IF scalar
                         THEN format_scalar(chan_info.value)
                         ELSE format_array(chan_info.value, chan_info.elements))
    IN  Join(c4, <<SP>>)

\* --------------------------------------------------------------- the codec
\* What the server answers for one channel: the negotiated wire type and
\* element count, the payload and stamp of the typed read, or a failed read.
Stamps == { [sec |-> 0, nsec |-> 0], [sec |-> 1162339199, nsec |-> 123456789] }

ScalarData(tp) ==
    CASE tp = "Char"   -> {65}
      [] tp = "Short"  -> {-3, 12}
      [] tp = "Long"   -> {7, 42}
      [] tp = "Enum"   -> {0, 2}
      [] tp = "Float"  -> { [m |-> 0, e |-> 0], [m |-> 1, e |-> 6], [m |-> -5, e |-> 1] }
      [] tp = "Double" -> { [m |-> 0, e |-> 0], [m |-> 3, e |-> 6] }
      [] tp = "String" -> { <<>>, <<"o", "n">>, <<"o", BADBYTE>> }

ElementData(tp) ==
    CASE tp = "Char"   -> {65}
      [] tp = "Short"  -> {1, -20}
      [] tp = "Long"   -> {1, -20}
      [] tp = "Enum"   -> {1}
      [] tp = "Float"  -> { [m |-> 3, e |-> 1] }
      [] tp = "Double" -> { [m |-> 3, e |-> 1] }
      [] tp = "String" -> { <<"o", "n">> }

SeqsUpTo(S, n) == UNION { [1..k -> S] : k \in 0..n }

Payloads(tp, count) ==
    IF count = 1 THEN ScalarData(tp) ELSE SeqsUpTo(ElementData(tp), count)

Replies(tp, count) ==
    { [tp |-> tp, count |-> count, data |-> d, stamp |-> st, fails |-> f] :
        d \in Payloads(tp, count), st \in Stamps, f \in BOOLEAN }

Stamp0 == [sec |-> 0, nsec |-> 0]

\* the replies the batch runs are explored with
RunReplies ==
    << [tp |-> "Long", count |-> 1, data |-> 7, stamp |-> Stamp0, fails |-> FALSE],
       [tp |-> "Long", count |-> 1, data |-> 42, stamp |-> Stamp0, fails |-> FALSE],
       [tp |-> "Long", count |-> 1, data |-> 7, stamp |-> Stamp0, fails |-> TRUE],
       [tp |-> "String", count |-> 1, data |-> <<>>, stamp |-> Stamp0, fails |-> FALSE],
       [tp |-> "Long", count |-> MaxElems, data |-> <<1, -20>>, stamp |-> Stamp0, fails |-> FALSE],
       [tp |-> "Short", count |-> MaxElems, data |-> <<1>>, stamp |-> Stamp0, fails |-> FALSE],
       [tp |-> "Char", count |-> MaxElems, data |-> <<65>>, stamp |-> Stamp0, fails |-> FALSE],
       [tp |-> "Enum", count |-> 2, data |-> <<1>>, stamp |-> Stamp0, fails |-> FALSE] >>

ArrayVariant(tp) ==
    CASE tp = "Short"  -> "ShortArray"
      [] tp = "Float"  -> "FloatArray"
      [] tp = "Long"   -> "LongArray"
      [] tp = "Double" -> "DoubleArray"
      [] tp = "String" -> "StringArray"

\* get_value! / get_array!: into_typed, the typed read, `?` on its error
get_value(reply, variant) ==
    IF reply.fails
    THEN [outcome |-> "CaError"]
    ELSE [outcome |-> "ok",
          value |-> [variant |-> variant, data |-> reply.data, stamp |-> reply.stamp]]

\* the (wire type, count == 1) dispatch of grab_info for one channel
grab_value(reply) ==
    IF reply.count = 1
    THEN get_value(reply, reply.tp)
    ELSE IF reply.tp \in ArrayFieldId
         THEN get_value(reply, ArrayVariant(reply.tp))
         ELSE [outcome |-> "unimplemented"]

\* ---------------------------------------------------------- get_channels
HasNul(name) == \E k \in 1..Len(name) : name[k] = NUL

NulPosition(name) == CHOOSE k \in 1..Len(name) :
    name[k] = NUL /\ \A j \in 1..(k - 1) : name[j] # NUL

\* the closure given to map(): CString::new, then Channel::new
OpenChannel(nms, i, caFail) ==
    IF HasNul(nms[i])
    THEN [ok |-> FALSE, idx |-> i, kind |-> "Misc", at |-> NulPosition(nms[i]) - 1]
    ELSE IF i \in caFail
         THEN [ok |-> FALSE, idx |-> i, kind |-> "CaError", at |-> 0]
         ELSE [ok |-> TRUE, idx |-> i, kind |-> "Channel", at |-> 0]

\* get_channels as it would be with the results collected into one Result:
\* the first name that fails to open leaves no handle at all
RECURSIVE FilterMapFailFast(_, _, _, _)
FilterMapFailFast(nms, i, caFail, acc) ==
    IF i > Len(nms) THEN acc
    ELSE LET r == OpenChannel(nms, i, caFail)
         IN  IF r.ok
             THEN FilterMapFailFast(nms, i + 1, caFail,
                      [acc EXCEPT !.channels = Append(@, i)])
             ELSE [channels |-> <<>>, errors |-> Append(acc.errors, r)]

get_channels_fail_fast(nms, caFail) ==
    FilterMapFailFast(nms, 1, caFail, [channels |-> <<>>, errors |-> <<>>])

\* map().filter_map(): Ok results are kept in order, Err results are pushed
\* to the local `errors` vector
RECURSIVE FilterMap(_, _, _, _)
FilterMap(nms, i, caFail, acc) ==
    IF i > Len(nms) THEN acc
    ELSE LET r == OpenChannel(nms, i, caFail)
         IN  FilterMap(nms, i + 1, caFail,
                 IF r.ok
                 THEN [acc EXCEPT !.channels = Append(@, i)]
                 ELSE [acc EXCEPT !.errors = Append(@, r)])

get_channels(nms, caFail) ==
    FilterMap(nms, 1, caFail, [channels |-> <<>>, errors |-> <<>>])

\* ---------------------------------------------------------- wait_connect
\* select!: the branches that are ready when the future is polled; one of
\* them completes
select(joinAllReady, sleeperReady) ==
    (IF joinAllReady THEN {"Ok"} ELSE {}) \cup (IF sleeperReady THEN {"Timeout"} ELSE {})

\* wait_connect as it would be if the sleeper's branch also returned Ok(())
wait_connect_lenient(chans, conn, elapsed) ==
    IF (\A k \in 1..Len(chans) : chans[k] \in conn) \/ elapsed THEN {"Ok"} ELSE {}

\* join_all over the channels' connected() futures, raced against the sleeper
wait_connect(chans, conn, elapsed) ==
    select(\A k \in 1..Len(chans) : chans[k] \in conn, elapsed)

TimeoutMsg == "Channel connect timed out: some PV(s) not found."

\* what main's eprintln! (or the panic hook) writes: the error's kind, its
\* text, and the index of the name it is about (0: no name)
Report(kind, msg, idx) == [kind |-> kind, msg |-> msg, idx |-> idx]

\* the loop as it would be iterating the vector from its end
NextChannelRev(chans, done) == chans[Len(chans) - done]

\* `for ch in channels`: the channel of the iteration after `done` iterations
NextChannel(chans, done) == chans[done + 1]

\* ------------------------------------------------------------------- state
VARIABLES
    names,      \* config.names
    config,     \* the flags: asynchronous, terse, wide
    tz,         \* the local time zone's offset from UTC, seconds
    pc,         \* where run() is
    channels,   \* the Vec<Channel> of get_channels, as indices into names
    errors,     \* the local `errors` vector of get_channels when it returned
    openFail,   \* the names Channel::new refused
    connected,  \* the channels whose connected() future has resolved
    deadline,   \* the sleeper has elapsed
    ret,        \* the Vec<Info> grab_info is building
    decodes,    \* history: one entry per channel grab_info got to
    stdout,     \* the lines printed
    stderr,     \* the messages main (or the panic hook) printed
    result      \* how the process ended

vars == <<names, config, tz, pc, channels, errors, openFail, connected,
          deadline, ret, decodes, stdout, stderr, result>>

TzOffsets == {0, 3600}

Configs == [asynchronous : BOOLEAN, terse : BOOLEAN, wide : BOOLEAN]

NameSeqs == UNION { [1..n -> PVNames] : n \in 1..MaxNames }

ChannelName(ch) == StringLossy(names[ch])

AllConnected == \A k \in 1..Len(channels) : channels[k] \in connected

Init ==
    /\ names \in NameSeqs
    /\ config \in Configs
    /\ tz \in TzOffsets
    /\ pc = "get_channels"
    /\ channels = <<>>
    /\ errors = <<>>
    /\ openFail = {}
    /\ connected = {}
    /\ deadline = FALSE
    /\ ret = <<>>
    /\ decodes = <<>>
    /\ stdout = <<>>
    /\ stderr = <<>>
    /\ result = "running"

\* run: Context::new fails, `?` returns the error, main prints it
ContextError ==
    /\ pc = "get_channels"
    /\ pc' = "done"
    /\ result' = "CaError:context"
    /\ stderr' = Append(stderr, Report("CaError", "context", 0))
    /\ UNCHANGED <<names, config, tz, channels, errors, openFail, connected,
                   deadline, ret, decodes, stdout>>

\* run: get_channels; the errors vector is dropped when it returns
GetChannels ==
    /\ pc = "get_channels"
    /\ \E caFail \in SUBSET { i \in 1..Len(names) : ~HasNul(names[i]) } :
         LET r == get_channels(names, caFail)
         IN  /\ channels' = r.channels
             /\ errors' = r.errors
             /\ openFail' = caFail
    /\ pc' = "wait_connect"
    /\ UNCHANGED <<names, config, tz, connected, deadline, ret, decodes,
                   stdout, stderr, result>>

\* the channel layer: one channel's connected() future resolves
Connect(ch) ==
    /\ pc = "wait_connect"
    /\ \E k \in 1..Len(channels) : channels[k] = ch
    /\ ch \notin connected
    /\ connected' = connected \cup {ch}
    /\ UNCHANGED <<names, config, tz, pc, channels, errors, openFail, deadline,
                   ret, decodes, stdout, stderr, result>>

\* the timer: sleep(timeout) elapses
DeadlineElapses ==
    /\ pc = "wait_connect"
    /\ ~deadline
    /\ deadline' = TRUE
    /\ UNCHANGED <<names, config, tz, pc, channels, errors, openFail, connected,
                   ret, decodes, stdout, stderr, result>>

\* run: wait_connect(...).await? -- on Err the error goes up to main
WaitConnect ==
    /\ pc = "wait_connect"
    /\ \E o \in wait_connect(channels, connected, deadline) :
         IF o = "Ok"
         THEN /\ pc' = "grab_info"
              /\ UNCHANGED <<stderr, result>>
         ELSE /\ pc' = "done"
              /\ result' = "ConnectTimeout"
              /\ stderr' = Append(stderr, Report("Misc", TimeoutMsg, 0))
    /\ UNCHANGED <<names, config, tz, channels, errors, openFail, connected,
                   deadline, ret, decodes, stdout>>

\* grab_info: one iteration of `for ch in channels`
GrabOne(reply) ==
    /\ pc = "grab_info"
    /\ Len(decodes) < Len(channels)
    /\ LET ch == NextChannel(channels, Len(decodes))
       IN    LET r == grab_value(reply)
                 entry == [ch |-> ch, tp |-> reply.tp, count |-> reply.count,
                           outcome |-> r.outcome]
             IN  /\ decodes' = Append(decodes, entry)
                 /\ CASE r.outcome = "ok" ->
                           /\ ret' = Append(ret, Info(ChannelName(ch), reply.count, r.value))
                           /\ UNCHANGED <<pc, result, stderr>>
                      [] r.outcome = "CaError" ->
                           /\ ret' = <<>>
                           /\ pc' = "done"
                           /\ result' = "CaError:read"
                           /\ stderr' = Append(stderr, Report("CaError", "read", 0))
                      [] r.outcome = "unimplemented" ->
                           /\ ret' = <<>>
                           /\ pc' = "done"
                           /\ result' = "panic"
                           /\ stderr' = Append(stderr, Report("panic", "not implemented", 0))
    /\ UNCHANGED <<names, config, tz, channels, errors, openFail, connected,
                   deadline, stdout>>

\* the batch runs: the server's answer is one of RunReplies
GrabInfo == \E n \in 1..Len(RunReplies) : GrabOne(RunReplies[n])

\* the single-channel runs: the server's answer is any reply
GrabInfoAny ==
    \E tp \in FieldId, count \in 1..MaxElems :
        \E reply \in Replies(tp, count) : GrabOne(reply)

\* grab_info returns Ok(ret); run prints every record and returns Ok(())
PrintAll ==
    /\ pc = "grab_info"
    /\ Len(decodes) = Len(channels)
    /\ stdout' = [k \in 1..Len(ret) |-> print_formatted(ret[k], config, tz)]
    /\ pc' = "done"
    /\ result' = "Ok"
    /\ UNCHANGED <<names, config, tz, channels, errors, openFail, connected,
                   deadline, ret, decodes, stderr>>

Next ==
    \/ ContextError
    \/ GetChannels
    \/ \E ch \in 1..MaxNames : Connect(ch)
    \/ DeadlineElapses
    \/ WaitConnect
    \/ GrabInfo
    \/ PrintAll

Spec == Init /\ [][Next]_vars

\* One valid name whose channel has connected, any reply of the server, any
\* flags: the codec and the formatter over their whole input table.
InitFmt ==
    /\ names \in { <<n>> : n \in { m \in PVNames : ~HasNul(m) } }
    /\ config \in Configs
    /\ tz \in TzOffsets
    /\ pc = "grab_info"
    /\ channels = <<1>>
    /\ errors = <<>>
    /\ openFail = {}
    /\ connected = {1}
    /\ deadline = FALSE
    /\ ret = <<>>
    /\ decodes = <<>>
    /\ stdout = <<>>
    /\ stderr = <<>>
    /\ result = "running"

NextFmt ==
    \/ GrabInfoAny
    \/ PrintAll

SpecFmt == InitFmt /\ [][NextFmt]_vars

\* ------------------------------------------------------------ properties
Opened == { channels[k] : k \in 1..Len(channels) }

OkDecodes == { k \in 1..Len(decodes) : decodes[k].outcome = "ok" }

PastConnect == pc \in {"grab_info", "done"} /\ result # "CaError:context"

\* C1: under the synchronous policy, when the deadline has elapsed and not
\* every opened channel has connected at the moment wait_connect resolves,
\* the run ends with the connect-timeout error, no channel is read, no record
\* is produced and no line is printed, whatever the other channels' state.
C1_TimeoutForeclosesAll ==
    /\ (PastConnect /\ deadline /\ ~AllConnected) =>
          /\ pc = "done"
          /\ result = "ConnectTimeout"
          /\ decodes = <<>> /\ ret = <<>> /\ stdout = <<>>
    /\ result = "ConnectTimeout" =>
          /\ decodes = <<>> /\ ret = <<>> /\ stdout = <<>>
          /\ stderr = << Report("Misc", TimeoutMsg, 0) >>

C1_Witness ==
    /\ pc = "done"
    /\ result = "ConnectTimeout"
    /\ Len(channels) = 3
    /\ Cardinality(connected) = 2

\* C2: under the synchronous policy no channel is read before every opened
\* channel has connected; the channels are read one after the other in the
\* input order of their names, and the lines are printed in that order.
C2_ReadsInInputOrder ==
    /\ decodes # <<>> => AllConnected
    /\ Len(decodes) <= Len(channels)
    /\ \A k \in 1..Len(decodes) :
          /\ decodes[k].ch = channels[k]
          /\ \A j \in 1..(k - 1) : decodes[j].ch < decodes[k].ch
    /\ result = "Ok" =>
          /\ Len(stdout) = Len(channels)
          /\ Len(ret) = Len(channels)
          /\ \A k \in 1..Len(stdout) :
                /\ ret[k].name = names[channels[k]]
                /\ stdout[k] = print_formatted(ret[k], config, tz)

C2_Witness ==
    /\ result = "Ok"
    /\ Len(stdout) = 3
    /\ names[1] # names[2]
    /\ stdout[1] # stdout[2]
    /\ stdout[2] # stdout[3]

\* C3: with the asynchronous flag set, when some channels connect and others
\* do not before the deadline, the time-outs do not surface as the run's
\* error, every connected channel is still read, and there is one record per
\* successful read.
C3_BestEffort ==
    (config.asynchronous /\ pc = "done" /\ PastConnect /\ deadline /\ ~AllConnected) =>
        /\ result # "ConnectTimeout"
        /\ \A ch \in Opened \cap connected : \E k \in 1..Len(decodes) : decodes[k].ch = ch
        /\ Len(ret) = Cardinality(OkDecodes)

\* C4: in a run that returns without a connect timeout, every record a
\* successful read produced is printed as a line, also when a later read of
\* the batch failed.
C4_ProducedRecordsPrinted ==
    (pc = "done" /\ result \in {"Ok", "CaError:read"}) =>
        Len(stdout) = Cardinality(OkDecodes)

\* C5: decoding a channel with more than one element and wire type Char or
\* Enum fails with a NotSupported error value; the process does not
\* terminate, and no record is produced for the channel.
C5_ArrayNotSupported ==
    \A k \in 1..Len(decodes) :
        (decodes[k].count > 1 /\ decodes[k].tp \in {"Char", "Enum"}) =>
            /\ decodes[k].outcome = "NotSupported"
            /\ result # "panic"
            /\ Len(ret) = Cardinality(OkDecodes)

\* C6: get_channels returns exactly one handle per name that opens, in the
\* input order of the names; a name with an embedded null byte yields no
\* handle and leaves the handles of the other names as they are.
C6_OneHandlePerOpenedName ==
    PastConnect \/ pc = "wait_connect" =>
        /\ \A k \in 1..Len(channels) : \A j \in 1..(k - 1) : channels[j] < channels[k]
        /\ Opened = { i \in 1..Len(names) : ~HasNul(names[i]) /\ i \notin openFail }
        /\ \A i \in 1..Len(names) : HasNul(names[i]) => i \notin Opened

C6_Witness ==
    /\ pc = "wait_connect"
    /\ Len(names) = 3
    /\ names[1] = names[3]
    /\ HasNul(names[2])
    /\ channels = <<1, 3>>

\* C7: every name that failed to open is reported: when the run has ended,
\* each error of get_channels appears among the messages the user got.
C7_OpenErrorsReported ==
    (pc = "done" /\ PastConnect) =>
        \A e \in 1..Len(errors) :
            \E k \in 1..Len(stderr) :
                stderr[k].kind = errors[e].kind /\ stderr[k].idx = errors[e].idx

\* the space-separated tokens of a text
RECURSIVE Tokens(_, _)
Tokens(text, cur) ==
    IF text = <<>> THEN << cur >>
    ELSE IF text[1] = SP THEN << cur >> \o Tokens(Tail(text), <<>>)
    ELSE Tokens(Tail(text), Append(cur, text[1]))

SupportedArray(info) ==
    ~is_scalar(info) /\ IsArrayVariant(info.value.variant)

\* C8: an array record of any supported array wire type with k elements and
\* declared count n >= k prints its value as exactly n space-separated
\* tokens, the last n - k of them "0" (after the count, in terse mode).
C8_ArrayPadding ==
    \A i \in 1..Len(stdout) :
        (SupportedArray(ret[i]) /\ config.terse /\ ~config.wide) =>
            LET n == ret[i].elements
                k == Len(ret[i].value.data)
                toks == Tokens(stdout[i], <<>>)
            IN  /\ Len(toks) = n + 1
                /\ toks[1] = IntToString(n)
                /\ \A j \in (k + 2)..(n + 1) : toks[j] = <<"0">>

\* the expected name column: the name, filled with spaces up to the pad width
NameColumn(info) ==
    IF is_scalar(info)
    THEN [j \in 1..(IF Len(info.name) > NamePadWidth THEN Len(info.name) ELSE NamePadWidth)
            |-> IF j <= Len(info.name) THEN info.name[j] ELSE SP]
    ELSE info.name

ExpectedLine(info) ==
    (IF config.terse THEN <<>> ELSE NameColumn(info) \o <<SP>>)
    \o (IF config.wide THEN format_stamp(info.value.stamp, tz) \o <<SP>> ELSE <<>>)
    \o (IF is_scalar(info) THEN <<>> ELSE IntToString(info.elements) \o <<SP>>)
    \o (IF is_scalar(info)
        THEN format_scalar(info.value)
        ELSE format_array(info.value, info.elements))

\* C9: a line is the fields name, timestamp, element count, value in that
\* order, joined by single spaces: the name iff not terse (padded to 30 for
\* a scalar, bare for an array), the timestamp iff wide, the count iff the
\* record is an array, the value always and last.
C9_FieldOrder ==
    \A i \in 1..Len(stdout) : stdout[i] = ExpectedLine(ret[i])

C9_Witness ==
    /\ ~config.terse /\ ~config.wide
    /\ stdout = << <<"A">> \o Spaces(29) \o <<SP, "7">> >>

\* C10: no printed line ends in whitespace, for every record the codec
\* produces and every combination of terse and wide.
C10_NoTrailingWhitespace ==
    \A i \in 1..Len(stdout) :
        stdout[i] = <<>> \/ stdout[i][Len(stdout[i])] \notin Whitespace

====
